---- MODULE Spec2Model ----
(***************************************************************************)
(* Model of go/ui/stream.go: StreamUI, the trace-event stream renderer.    *)
(* A StreamUI keeps a shadow copy of the emulated state (PC, SP, Regs,     *)
(* SpRegs, Mem), one pending instruction with its queued side effects,     *)
(* and writes text lines to w.                                             *)
(*                                                                         *)
(* The handlers are translated as operators on a record holding the        *)
(* fields of the StreamUI; one action per exported entry point (Feed,      *)
(* Flush) applies the operator to the variables.                           *)
(***************************************************************************)
EXTENDS Integers, Sequences, FiniteSets, TLC

\* ------------------------------------------------------------------ bounds
\* number of top-level calls (Feed or Flush) made in one session
MaxCalls == 3
\* PC and addresses are uint64 in the source; the model keeps the wrap-around
\* at a small modulus
AddrMod == 4
\* number of events applied by update() in one run of the State Updater
MaxUpdates == 3

Addr == 0 .. (AddrMod - 1)

\* ------------------------------------------------------- architecture data
\* s.Arch.SP: the register id of the stack pointer
ArchSP == 1
\* s.Arch.RegNames(): register id -> name
RegNames == (0 :> "r0") @@ (1 :> "sp")

Nil == [type |-> "nil"]

\* ------------------------------------------------------------- trace ops
OpJmp(a) == [type |-> "OpJmp", Addr |-> a]
OpStep(n) == [type |-> "OpStep", Size |-> n]
OpReg(n, v) == [type |-> "OpReg", Num |-> n, Val |-> v]
OpSpReg(n, v) == [type |-> "OpSpReg", Num |-> n, Val |-> v]
OpMemMap(a, n, z) == [type |-> "OpMemMap", Addr |-> a, Size |-> n, Prot |-> 7, Zero |-> z]
OpMemUnmap(a, n) == [type |-> "OpMemUnmap", Addr |-> a, Size |-> n]
OpMemWrite(a, d) == [type |-> "OpMemWrite", Addr |-> a, Data |-> d]
OpMemRead(a, d) == [type |-> "OpMemRead", Addr |-> a, Data |-> d]
OpSyscall(n, args, ret, ops) ==
    [type |-> "OpSyscall", Num |-> n, Args |-> args, Ret |-> ret, Ops |-> ops]
OpExit == [type |-> "OpExit"]
OpFrame(ops) == [type |-> "OpFrame", Ops |-> ops]
OpKeyframe(ops) == [type |-> "OpKeyframe", Ops |-> ops]

\* ------------------------------------------------------------ models.MemSim
\* The memory simulation: every address is unmapped (Unmapped) or holds a byte.
Unmapped == -1

MemSimNew == [a \in Addr |-> Unmapped]

MemRange(addr, size) == {a \in Addr : addr <= a /\ a < addr + size}

MemSimMap(m, addr, size, zero) ==
    [a \in Addr |->
        IF a \in MemRange(addr, size)
        THEN (IF zero \/ m[a] = Unmapped THEN 0 ELSE m[a])
        ELSE m[a]]

MemSimUnmap(m, addr, size) ==
    [a \in Addr |-> IF a \in MemRange(addr, size) THEN Unmapped ELSE m[a]]

MemSimWrite(m, addr, data) ==
    [a \in Addr |->
        IF a \in MemRange(addr, Len(data)) THEN data[a - addr + 1] ELSE m[a]]

\* Read fills a zeroed buffer of n bytes; unmapped bytes stay zero.
MemSimRead(m, addr, n) ==
    [i \in 1 .. n |->
        LET a == (addr + i - 1) % AddrMod
        IN  IF m[a] = Unmapped THEN 0 ELSE m[a]]

\* ------------------------------------------------------------ NewStreamUI
NewStreamUI ==
    [PC |-> 0, SP |-> 0, Regs |-> <<>>, SpRegs |-> <<>>, Mem |-> MemSimNew,
     pending |-> Nil, effects |-> <<>>, w |-> <<>>, rend |-> <<>>]

\* map assignment m[k] = v on a Go map
MapSet(m, k, v) == (k :> v) @@ m

\* ------------------------------------------------------------------ update
RECURSIVE update(_, _)
RECURSIVE updateAll(_, _)

\* update with a register write that sets SP whatever the register is
update_spAlways(s, o) ==
    CASE o.type = "OpJmp" -> [s EXCEPT !.PC = o.Addr]
      [] o.type = "OpStep" -> [s EXCEPT !.PC = (s.PC + o.Size) % AddrMod]
      [] o.type = "OpReg" ->
            [s EXCEPT !.SP = o.Val, !.Regs = MapSet(s.Regs, o.Num, o.Val)]
      [] o.type = "OpSpReg" -> [s EXCEPT !.SpRegs = MapSet(s.SpRegs, o.Num, o.Val)]
      [] o.type = "OpMemMap" ->
            [s EXCEPT !.Mem = MemSimMap(s.Mem, o.Addr, o.Size, o.Zero)]
      [] o.type = "OpMemUnmap" ->
            [s EXCEPT !.Mem = MemSimUnmap(s.Mem, o.Addr, o.Size)]
      [] o.type = "OpMemWrite" ->
            [s EXCEPT !.Mem = MemSimWrite(s.Mem, o.Addr, o.Data)]
      [] o.type = "OpSyscall" -> updateAll(s, o.Ops)
      [] OTHER -> s

\* update with a step that sets PC to the size instead of advancing it
update_stepSets(s, o) ==
    CASE o.type = "OpJmp" -> [s EXCEPT !.PC = o.Addr]
      [] o.type = "OpStep" -> [s EXCEPT !.PC = o.Size % AddrMod]
      [] o.type = "OpReg" ->
            [s EXCEPT !.SP = IF o.Num = ArchSP THEN o.Val ELSE s.SP,
                      !.Regs = MapSet(s.Regs, o.Num, o.Val)]
      [] o.type = "OpSpReg" -> [s EXCEPT !.SpRegs = MapSet(s.SpRegs, o.Num, o.Val)]
      [] o.type = "OpMemMap" ->
            [s EXCEPT !.Mem = MemSimMap(s.Mem, o.Addr, o.Size, o.Zero)]
      [] o.type = "OpMemUnmap" ->
            [s EXCEPT !.Mem = MemSimUnmap(s.Mem, o.Addr, o.Size)]
      [] o.type = "OpMemWrite" ->
            [s EXCEPT !.Mem = MemSimWrite(s.Mem, o.Addr, o.Data)]
      [] o.type = "OpSyscall" -> updateAll(s, o.Ops)
      [] OTHER -> s

\* update() applies state change(s) from op to the UI's internal state
update(s, o) ==
    CASE o.type = "OpJmp" -> [s EXCEPT !.PC = o.Addr]
      [] o.type = "OpStep" -> [s EXCEPT !.PC = (s.PC + o.Size) % AddrMod]
      [] o.type = "OpReg" ->
            [s EXCEPT !.SP = IF o.Num = ArchSP THEN o.Val ELSE s.SP,
                      !.Regs = MapSet(s.Regs, o.Num, o.Val)]
      [] o.type = "OpSpReg" -> [s EXCEPT !.SpRegs = MapSet(s.SpRegs, o.Num, o.Val)]
      [] o.type = "OpMemMap" ->
            [s EXCEPT !.Mem = MemSimMap(s.Mem, o.Addr, o.Size, o.Zero)]
      [] o.type = "OpMemUnmap" ->
            [s EXCEPT !.Mem = MemSimUnmap(s.Mem, o.Addr, o.Size)]
      [] o.type = "OpMemWrite" ->
            [s EXCEPT !.Mem = MemSimWrite(s.Mem, o.Addr, o.Data)]
      [] o.type = "OpSyscall" -> updateAll(s, o.Ops)
      [] OTHER -> s

\* for _, v := range ops { s.update(v) }
updateAll(s, ops) ==
    IF ops = <<>> THEN s ELSE updateAll(update(s, Head(ops)), Tail(ops))

\* ------------------------------------------------------------ the renderer
\* one text line written to s.w
Write(s, line) == [s EXCEPT !.w = Append(@, line)]

\* blockPrint() takes a basic block address to pretty-print: "\n%#x\n"
blockPrint(s, addr) ==
    Write(Write(s, [kind |-> "blank"]), [kind |-> "block", addr |-> addr])

\* sysPrint() takes a syscall op to pretty-print: "syscall(%d, [%s]) = %d\n"
sysPrint(s, op) ==
    Write(s, [kind |-> "sys", num |-> op.Num, args |-> op.Args, ret |-> op.Ret])

Digits == <<"0", "1", "2", "3", "4", "5", "6", "7", "8", "9">>

RECURSIVE Itoa(_)
\* strconv.Itoa on a non-negative int
Itoa(n) == IF n < 10 THEN Digits[n + 1] ELSE Itoa(n \div 10) \o Digits[(n % 10) + 1]

\* RegName with an empty name for a register the table does not hold
RegName_noFallback(num) == IF num \in DOMAIN RegNames THEN RegNames[num] ELSE ""

\* name, ok := s.Arch.RegNames()[int(o.Num)]; if !ok { name = strconv.Itoa(...) }
RegName(num) == IF num \in DOMAIN RegNames THEN RegNames[num] ELSE Itoa(num)

\* fmt.Sprintf(s.regfmt, name, o.Val): "<name> = <hex value>"
RegStr(o) == <<RegName(o.Num), "=", o.Val>>

\* fmt.Sprintf("R %x", o.Addr) / fmt.Sprintf("W %x", o.Addr)
MemStr(o) == <<IF o.type = "OpMemRead" THEN "R" ELSE "W", o.Addr>>

RECURSIVE CollectRegs(_)
\* regs: one string per OpReg of effects, in order
CollectRegs(effects) ==
    IF effects = <<>> THEN <<>>
    ELSE (IF Head(effects).type = "OpReg" THEN <<RegStr(Head(effects))>> ELSE <<>>)
         \o CollectRegs(Tail(effects))

RECURSIVE CollectMem(_)
\* mem: one string per OpMemRead / OpMemWrite of effects, in order
CollectMem(effects) ==
    IF effects = <<>> THEN <<>>
    ELSE (IF Head(effects).type \in {"OpMemRead", "OpMemWrite"}
          THEN <<MemStr(Head(effects))>> ELSE <<>>)
         \o CollectMem(Tail(effects))

RECURSIVE SpRegLines(_)
\* "<unimplemented special register>\n", written while the effects are collected
SpRegLines(effects) ==
    IF effects = <<>> THEN <<>>
    ELSE (IF Head(effects).type = "OpSpReg" THEN <<[kind |-> "spreg"]>> ELSE <<>>)
         \o SpRegLines(Tail(effects))

\* the empty register column: strings.Repeat(" ", s.regcol)
Blank == <<>>

\* the primary line: "%s | %s\n" or "%s | %s | %s\n"
PrimaryLine(ins, regs, mem) ==
    LET reg == IF Len(regs) > 0 THEN regs[1] ELSE Blank
    IN  IF Len(mem) > 0
        THEN [kind |-> "ins", cols |-> <<ins, reg, mem[1]>>]
        ELSE [kind |-> "ins", cols |-> <<ins, reg>>]

\* ExtraLines pairing the extra register changes with the memory accesses
\* from the first one on
ExtraLines_fromFirst(regs, mem) ==
    [j \in 1 .. (IF Len(regs) > 1 THEN Len(regs) - 1 ELSE 0) |->
        IF j <= Len(mem)
        THEN [kind |-> "cont", cols |-> <<regs[j + 1], mem[j]>>]
        ELSE [kind |-> "cont", cols |-> <<regs[j + 1]>>]]

\* print extra effects: one line per register change after the first
ExtraLines(regs, mem) ==
    [j \in 1 .. (IF Len(regs) > 1 THEN Len(regs) - 1 ELSE 0) |->
        IF j + 1 <= Len(mem)
        THEN [kind |-> "cont", cols |-> <<regs[j + 1], mem[j + 1]>>]
        ELSE [kind |-> "cont", cols |-> <<regs[j + 1]>>]]

\* insPrint() takes an instruction address and side-effects to pretty-print.
\* The instruction text is a function of pc and of the bytes read at pc (the
\* disassembly, or "%#x: %x" of them).  rend logs each call with the shadow
\* state it ran in and the lines it wrote.
insPrint(s, pc, size, effects) ==
    LET insmem == MemSimRead(s.Mem, pc, size)
        ins == [pc |-> pc, bytes |-> insmem]
        lines == SpRegLines(effects)
                 \o <<PrimaryLine(ins, CollectRegs(effects), CollectMem(effects))>>
                 \o ExtraLines(CollectRegs(effects), CollectMem(effects))
    IN  [s EXCEPT !.w = @ \o lines,
                  !.rend = Append(@, [pc |-> pc, size |-> size, effects |-> effects,
                                      PC |-> s.PC, SP |-> s.SP, Regs |-> s.Regs,
                                      SpRegs |-> s.SpRegs, Mem |-> s.Mem,
                                      lines |-> lines])]

\* ------------------------------------------------------------------- Flush
\* Flush that empties the queue also when no instruction is pending
Flush_clearAlways(s) ==
    IF s.pending # Nil
    THEN LET s1 == insPrint(s, s.PC, s.pending.Size, s.effects)
             s2 == update(s1, s.pending)
             s3 == updateAll(s2, s.effects)
         IN  [s3 EXCEPT !.effects = <<>>, !.pending = Nil]
    ELSE [s EXCEPT !.effects = <<>>]

\* Flush that leaves the side effects queued
Flush_keepEffects(s) ==
    IF s.pending # Nil
    THEN LET s1 == insPrint(s, s.PC, s.pending.Size, s.effects)
             s2 == update(s1, s.pending)
             s3 == updateAll(s2, s.effects)
         IN  [s3 EXCEPT !.pending = Nil]
    ELSE s

\* Flush that leaves the instruction pending
Flush_keepPending(s) ==
    IF s.pending # Nil
    THEN LET s1 == insPrint(s, s.PC, s.pending.Size, s.effects)
             s2 == update(s1, s.pending)
             s3 == updateAll(s2, s.effects)
         IN  [s3 EXCEPT !.effects = <<>>]
    ELSE s

\* Flush with the state updated before the instruction is rendered
Flush_updateFirst(s) ==
    IF s.pending # Nil
    THEN LET s2 == update(s, s.pending)
             s3 == updateAll(s2, s.effects)
             s1 == insPrint(s3, s3.PC, s.pending.Size, s.effects)
         IN  [s1 EXCEPT !.effects = <<>>, !.pending = Nil]
    ELSE s

\* Flush prints and clears the currently queued instruction and side-effects
Flush(s) ==
    IF s.pending # Nil
    THEN LET s1 == insPrint(s, s.PC, s.pending.Size, s.effects)
             s2 == update(s1, s.pending)
             s3 == updateAll(s2, s.effects)
         IN  [s3 EXCEPT !.effects = <<>>, !.pending = Nil]
    ELSE s

\* -------------------------------------------------------------------- Feed
\* FeedOne with a step that replaces the pending instruction without flushing it
FeedOne_stepNoFlush(s, op) ==
    CASE op.type = "OpJmp" -> update(blockPrint(Flush(s), op.Addr), op)
      [] op.type = "OpStep" -> [s EXCEPT !.pending = op]
      [] op.type = "OpSyscall" -> sysPrint(Flush(s), op)
      [] OTHER -> [s EXCEPT !.effects = Append(@, op)]

\* FeedOne that also applies a side effect when it queues it
FeedOne_applyNow(s, op) ==
    CASE op.type = "OpJmp" -> update(blockPrint(Flush(s), op.Addr), op)
      [] op.type = "OpStep" -> [Flush(s) EXCEPT !.pending = op]
      [] op.type = "OpSyscall" -> sysPrint(Flush(s), op)
      [] OTHER -> update([s EXCEPT !.effects = Append(@, op)], op)

\* FeedOne that queues a side effect only while an instruction is pending
FeedOne_queueWhenPending(s, op) ==
    CASE op.type = "OpJmp" -> update(blockPrint(Flush(s), op.Addr), op)
      [] op.type = "OpStep" -> [Flush(s) EXCEPT !.pending = op]
      [] op.type = "OpSyscall" -> sysPrint(Flush(s), op)
      [] OTHER -> IF s.pending # Nil THEN [s EXCEPT !.effects = Append(@, op)] ELSE s

\* FeedOne with a jump that does not flush the pending instruction
FeedOne_jmpNoFlush(s, op) ==
    CASE op.type = "OpJmp" -> update(blockPrint(s, op.Addr), op)
      [] op.type = "OpStep" -> [Flush(s) EXCEPT !.pending = op]
      [] op.type = "OpSyscall" -> sysPrint(Flush(s), op)
      [] OTHER -> [s EXCEPT !.effects = Append(@, op)]

\* FeedOne with a syscall whose nested events are queued as side effects
FeedOne_sysQueued(s, op) ==
    CASE op.type = "OpJmp" -> update(blockPrint(Flush(s), op.Addr), op)
      [] op.type = "OpStep" -> [Flush(s) EXCEPT !.pending = op]
      [] op.type = "OpSyscall" ->
            [sysPrint(Flush(s), op) EXCEPT !.effects = @ \o op.Ops]
      [] OTHER -> [s EXCEPT !.effects = Append(@, op)]

\* one iteration of the loop over ops in Feed
FeedOne(s, op) ==
    CASE op.type = "OpJmp" -> update(blockPrint(Flush(s), op.Addr), op)
      [] op.type = "OpStep" -> [Flush(s) EXCEPT !.pending = op]
      [] op.type = "OpSyscall" -> sysPrint(Flush(s), op)
      [] OTHER -> [s EXCEPT !.effects = Append(@, op)]

RECURSIVE FeedOps(_, _)
\* for _, op := range ops { ... }
FeedOps(s, ops) ==
    IF ops = <<>> THEN s ELSE FeedOps(FeedOne(s, Head(ops)), Tail(ops))

\* Feed with the events of a keyframe handled as fed events
Feed_keyFed(s, op) ==
    IF op.type = "OpKeyframe"
    THEN FeedOps(Flush(s), op.Ops)
    ELSE FeedOps(s, IF op.type = "OpFrame" THEN op.Ops ELSE <<op>>)

\* Feed with a keyframe applied before the pending instruction is flushed
Feed_keyFirst(s, op) ==
    IF op.type = "OpKeyframe"
    THEN Flush(updateAll(s, op.Ops))
    ELSE FeedOps(s, IF op.type = "OpFrame" THEN op.Ops ELSE <<op>>)

\* Feed() is the entry point handling Op structs.
Feed(s, op) ==
    IF op.type = "OpKeyframe"
    THEN updateAll(Flush(s), op.Ops)
    ELSE FeedOps(s, IF op.type = "OpFrame" THEN op.Ops ELSE <<op>>)

\* ------------------------------------------------------- the events fed
\* side-effect events (everything Feed queues)
EffectOps ==
    {OpReg(0, 1), OpReg(ArchSP, 2), OpReg(7, 1), OpSpReg(0, <<1>>),
     OpMemMap(0, 2, TRUE), OpMemUnmap(0, 2),
     OpMemWrite(0, <<1>>), OpMemWrite(1, <<2, 3>>), OpMemRead(0, <<0>>), OpExit}

\* boundary events
SysA == OpSyscall(4, <<1, 2>>, 0, <<OpMemWrite(0, <<5>>), OpReg(ArchSP, 3)>>)
BoundaryOps == {OpJmp(2), OpStep(1), OpStep(2), SysA}

\* snapshots
KeyA == OpKeyframe(<<OpMemWrite(0, <<170>>), OpReg(0, 2)>>)
KeyB == OpKeyframe(<<OpMemMap(0, 2, TRUE), SysA, OpJmp(1)>>)

\* batches
FrameA ==
    OpFrame(<<OpStep(2), OpReg(0, 1), OpMemRead(0, <<0>>), OpReg(ArchSP, 2),
              OpMemWrite(1, <<7>>), OpMemRead(1, <<7>>)>>)
FrameB ==
    OpFrame(<<OpMemRead(2, <<0>>), OpJmp(1), OpStep(1), OpMemWrite(1, <<9>>), SysA,
              OpStep(2), OpReg(12, 4)>>)
FrameC == OpFrame(<<OpFrame(<<OpStep(1)>>)>>)
FrameD == OpFrame(<<KeyA>>)

FedOps == EffectOps \cup BoundaryOps \cup {KeyA, KeyB, FrameA, FrameB, FrameC, FrameD}

\* ------------------------------------------------------------------ state
VARIABLES
    PC, SP, Regs, SpRegs, Mem,  \* the shadow state
    pending, effects,           \* the unflushed instruction and its side effects
    w,                          \* the lines written to the io.Writer
    rend,                       \* log of the insPrint calls
    hist,                       \* the calls made so far, in order
    pre                         \* the StreamUI as it was before the last call

vars == <<PC, SP, Regs, SpRegs, Mem, pending, effects, w, rend, hist, pre>>

\* the StreamUI as a record
St ==
    [PC |-> PC, SP |-> SP, Regs |-> Regs, SpRegs |-> SpRegs, Mem |-> Mem,
     pending |-> pending, effects |-> effects, w |-> w, rend |-> rend]

Becomes(s) ==
    /\ PC' = s.PC
    /\ SP' = s.SP
    /\ Regs' = s.Regs
    /\ SpRegs' = s.SpRegs
    /\ Mem' = s.Mem
    /\ pending' = s.pending
    /\ effects' = s.effects
    /\ w' = s.w
    /\ rend' = s.rend

CallFlush == [call |-> "Flush"]
CallFeed(op) == [call |-> "Feed", op |-> op]

Init ==
    /\ PC = NewStreamUI.PC
    /\ SP = NewStreamUI.SP
    /\ Regs = NewStreamUI.Regs
    /\ SpRegs = NewStreamUI.SpRegs
    /\ Mem = NewStreamUI.Mem
    /\ pending = NewStreamUI.pending
    /\ effects = NewStreamUI.effects
    /\ w = NewStreamUI.w
    /\ rend = NewStreamUI.rend
    /\ hist = <<>>
    /\ pre = NewStreamUI

\* a call of s.Feed(op)
DoFeed ==
    \E op \in FedOps :
        /\ Len(hist) < MaxCalls
        /\ Becomes(Feed(St, op))
        /\ hist' = Append(hist, CallFeed(op))
        /\ pre' = St

\* a call of s.Flush()
DoFlush ==
    /\ Len(hist) < MaxCalls
    /\ Becomes(Flush(St))
    /\ hist' = Append(hist, CallFlush)
    /\ pre' = St

Next == DoFeed \/ DoFlush

Spec == Init /\ [][Next]_vars

\* =====================================================================
\* Reference semantics of the State Updater rules, stated per component and
\* by last writer, used to state the properties below.
\* =====================================================================
Shadow(s) == [PC |-> s.PC, SP |-> s.SP, Regs |-> s.Regs, SpRegs |-> s.SpRegs, Mem |-> s.Mem]

Front(q) == SubSeq(q, 1, Len(q) - 1)
Last(q) == q[Len(q)]

RECURSIVE Leaves(_)
\* the events of ops in order, each syscall replaced by its nested events
Leaves(ops) ==
    IF ops = <<>> THEN <<>>
    ELSE (IF Head(ops).type = "OpSyscall" THEN Leaves(Head(ops).Ops) ELSE <<Head(ops)>>)
         \o Leaves(Tail(ops))

RECURSIVE RefPC(_, _)
RefPC(pc, L) ==
    IF L = <<>> THEN pc
    ELSE CASE Last(L).type = "OpJmp" -> Last(L).Addr
           [] Last(L).type = "OpStep" -> (RefPC(pc, Front(L)) + Last(L).Size) % AddrMod
           [] OTHER -> RefPC(pc, Front(L))

\* the indices of L that write register num
RegWrites(L, num) == {i \in 1 .. Len(L) : L[i].type = "OpReg" /\ L[i].Num = num}
SpRegWrites(L, num) == {i \in 1 .. Len(L) : L[i].type = "OpSpReg" /\ L[i].Num = num}
Max(S) == CHOOSE x \in S : \A y \in S : y <= x

RefRegs(regs, L) ==
    [num \in DOMAIN regs \cup {L[i].Num : i \in {j \in 1 .. Len(L) : L[j].type = "OpReg"}} |->
        IF RegWrites(L, num) = {} THEN regs[num] ELSE L[Max(RegWrites(L, num))].Val]

RefSP(sp, L) ==
    IF RegWrites(L, ArchSP) = {} THEN sp ELSE L[Max(RegWrites(L, ArchSP))].Val

RefSpRegs(spregs, L) ==
    [num \in DOMAIN spregs \cup {L[i].Num : i \in {j \in 1 .. Len(L) : L[j].type = "OpSpReg"}} |->
        IF SpRegWrites(L, num) = {} THEN spregs[num] ELSE L[Max(SpRegWrites(L, num))].Val]

\* whether event o touches address a of the memory
Touches(o, a) ==
    \/ o.type \in {"OpMemMap", "OpMemUnmap"} /\ o.Addr <= a /\ a < o.Addr + o.Size
    \/ o.type = "OpMemWrite" /\ o.Addr <= a /\ a < o.Addr + Len(o.Data)

RECURSIVE RefCell(_, _, _)
\* the content of address a after the events L, from content c
RefCell(c, L, a) ==
    IF L = <<>> THEN c
    ELSE IF ~Touches(Last(L), a) THEN RefCell(c, Front(L), a)
    ELSE CASE Last(L).type = "OpMemWrite" -> Last(L).Data[a - Last(L).Addr + 1]
           [] Last(L).type = "OpMemUnmap" -> Unmapped
           [] Last(L).type = "OpMemMap" ->
                IF Last(L).Zero \/ RefCell(c, Front(L), a) = Unmapped
                THEN 0 ELSE RefCell(c, Front(L), a)

RefMem(mem, L) == [a \in Addr |-> RefCell(mem[a], L, a)]

\* the shadow state sh after the events ops are applied in order
RefShadow(sh, ops) ==
    [PC |-> RefPC(sh.PC, Leaves(ops)), SP |-> RefSP(sh.SP, Leaves(ops)),
     Regs |-> RefRegs(sh.Regs, Leaves(ops)), SpRegs |-> RefSpRegs(sh.SpRegs, Leaves(ops)),
     Mem |-> RefMem(sh.Mem, Leaves(ops))]

\* the shadow state of p once its pending instruction, if any, is applied
\* with its queued side effects
AfterFlush(p) ==
    IF p.pending = Nil THEN Shadow(p)
    ELSE RefShadow(Shadow(p), <<p.pending>> \o p.effects)

\* r is a rendering of the pending instruction of p made in the state of p
RenderedFrom(r, p) ==
    /\ r.pc = p.PC /\ r.size = p.pending.Size /\ r.effects = p.effects
    /\ r.PC = p.PC /\ r.SP = p.SP /\ r.Regs = p.Regs /\ r.SpRegs = p.SpRegs
    /\ r.Mem = p.Mem
    /\ \E i \in 1 .. Len(r.lines) :
        /\ r.lines[i].kind = "ins"
        /\ r.lines[i].cols[1].pc = p.PC
        /\ Len(r.lines[i].cols[1].bytes) = p.pending.Size
        /\ \A k \in 1 .. p.pending.Size :
              r.lines[i].cols[1].bytes[k] =
                 (IF p.Mem[(p.PC + k - 1) % AddrMod] = Unmapped THEN 0
                  ELSE p.Mem[(p.PC + k - 1) % AddrMod])
        /\ \A j \in 1 .. Len(r.lines) : j # i => r.lines[j].kind # "ins"

Called == hist # <<>>
LastCall == Last(hist)
LastIsFlush == Called /\ LastCall.call = "Flush"
LastIsFeed(type) == Called /\ LastCall.call = "Feed" /\ LastCall.op.type = type

\* ---------------------------------------------------------------------
\* C1: Flush() with a pending instruction renders it from the PC, memory and
\* registers as they are before the call, then advances PC by its size, then
\* applies the queued side effects in the order queued (a later write to a
\* register or address wins), then empties the queue and clears the pending
\* instruction; the written lines are those of that one rendering.
C1_FlushOrder ==
    (LastIsFlush /\ pre.pending # Nil) =>
        /\ Len(rend) = Len(pre.rend) + 1
        /\ Front(rend) = pre.rend
        /\ RenderedFrom(Last(rend), pre)
        /\ w = pre.w \o Last(rend).lines
        /\ PC = (pre.PC + pre.pending.Size) % AddrMod
        /\ Shadow(St) = RefShadow(Shadow(pre), <<pre.pending>> \o pre.effects)
        /\ effects = <<>>
        /\ pending = Nil

\* a flush whose queued effects changed the memory the instruction was read from
C1_Witness ==
    /\ LastIsFlush /\ pre.pending # Nil /\ Len(pre.effects) >= 2
    /\ MemSimRead(Mem, pre.PC, pre.pending.Size) # MemSimRead(pre.Mem, pre.PC, pre.pending.Size)
    /\ Regs # pre.Regs

\* =====================================================================
\* The stream fed so far
\* =====================================================================
RECURSIVE Units(_)
\* the calls h as the units Feed and Flush handle one by one: an explicit
\* flush, a keyframe, or an event of Feed's loop (frames opened one level)
Units(h) ==
    IF h = <<>> THEN <<>>
    ELSE (IF Head(h).call = "Flush" THEN <<[k |-> "flush"]>>
          ELSE IF Head(h).op.type = "OpKeyframe" THEN <<[k |-> "key", op |-> Head(h).op]>>
          ELSE IF Head(h).op.type = "OpFrame"
               THEN [i \in 1 .. Len(Head(h).op.Ops) |-> [k |-> "op", op |-> Head(h).op.Ops[i]]]
          ELSE <<[k |-> "op", op |-> Head(h).op]>>)
         \o Units(Tail(h))

IsStepUnit(u) == u.k = "op" /\ u.op.type = "OpStep"

\* the index of the last StepEvent among the units U (0 if none)
LastStep(U) ==
    IF \E i \in 1 .. Len(U) : IsStepUnit(U[i])
    THEN Max({i \in 1 .. Len(U) : IsStepUnit(U[i])}) ELSE 0

RECURSIVE DeepLeaves(_)
\* every event of ops at any nesting (frame, keyframe, syscall), in stream order
DeepLeaves(ops) ==
    IF ops = <<>> THEN <<>>
    ELSE (IF Head(ops).type \in {"OpFrame", "OpKeyframe", "OpSyscall"}
          THEN DeepLeaves(Head(ops).Ops) ELSE <<Head(ops)>>)
         \o DeepLeaves(Tail(ops))

RECURSIVE UnitOps(_)
\* the events of the units U (explicit flushes carry none)
UnitOps(U) ==
    IF U = <<>> THEN <<>>
    ELSE (IF Head(U).k = "flush" THEN <<>> ELSE <<Head(U).op>>) \o UnitOps(Tail(U))

\* the units fed before the last call
PreUnits == Units(Front(hist))

\* ---------------------------------------------------------------------
\* C2: whenever an instruction is rendered, the memory simulation reflects
\* every memory map/unmap/write event fed (at any nesting) strictly before
\* that instruction's StepEvent and none of the events fed after it.
C2_MemAtRender ==
    (LastIsFlush /\ pre.pending # Nil) =>
        Last(rend).Mem =
            RefMem(MemSimNew,
                   DeepLeaves(UnitOps(SubSeq(PreUnits, 1, LastStep(PreUnits) - 1))))

\* ---------------------------------------------------------------------
\* the register and memory columns of rendered lines, in order
RECURSIVE ShownRegs(_)
ShownRegs(lines) ==
    IF lines = <<>> THEN <<>>
    ELSE (CASE Head(lines).kind = "ins" /\ Head(lines).cols[2] # Blank -> <<Head(lines).cols[2]>>
            [] Head(lines).kind = "cont" -> <<Head(lines).cols[1]>>
            [] OTHER -> <<>>)
         \o ShownRegs(Tail(lines))

RECURSIVE ShownMem(_)
ShownMem(lines) ==
    IF lines = <<>> THEN <<>>
    ELSE (CASE Head(lines).kind = "ins" /\ Len(Head(lines).cols) = 3 -> <<Head(lines).cols[3]>>
            [] Head(lines).kind = "cont" /\ Len(Head(lines).cols) = 2 -> <<Head(lines).cols[2]>>
            [] OTHER -> <<>>)
         \o ShownMem(Tail(lines))

IsRegOp(o) == o.type = "OpReg"
IsMemAccess(o) == o.type \in {"OpMemRead", "OpMemWrite"}

\* the number of register writes (memory accesses) among q[1..i]
RegRank(q, i) == Cardinality({j \in 1 .. i : IsRegOp(q[j])})
MemRank(q, i) == Cardinality({j \in 1 .. i : IsMemAccess(q[j])})

\* C3: every register write, memory read and memory write fed after a
\* StepEvent and before the next boundary is rendered in the lines of that
\* instruction, and in no other instruction's lines (the queue is empty once
\* the instruction is flushed).
C3_Attribution ==
    (LastIsFlush /\ pre.pending # Nil) =>
        LET q == pre.effects
            since == Len(PreUnits) - LastStep(PreUnits)
            lines == Last(rend).lines
        IN  /\ since <= Len(q)
            /\ UnitOps(SubSeq(PreUnits, LastStep(PreUnits) + 1, Len(PreUnits)))
                  = SubSeq(q, Len(q) - since + 1, Len(q))
            /\ \A i \in (Len(q) - since + 1) .. Len(q) :
                  /\ IsRegOp(q[i]) =>
                        /\ RegRank(q, i) <= Len(ShownRegs(lines))
                        /\ ShownRegs(lines)[RegRank(q, i)] = RegStr(q[i])
                  /\ IsMemAccess(q[i]) =>
                        /\ MemRank(q, i) <= Len(ShownMem(lines))
                        /\ ShownMem(lines)[MemRank(q, i)] = MemStr(q[i])
            /\ effects = <<>>

\* ---------------------------------------------------------------------
\* what a call that starts with Flush() leaves of the pending instruction:
\* it is rendered from the state before the call, its lines are written
\* first, and the queue is emptied; with nothing pending nothing is rendered
\* and the queue is left as it is.  tail is what the call writes after it.
FlushedFirst(tail) ==
    IF pre.pending # Nil
    THEN /\ Len(rend) = Len(pre.rend) + 1
         /\ Front(rend) = pre.rend
         /\ RenderedFrom(Last(rend), pre)
         /\ w = pre.w \o Last(rend).lines \o tail
         /\ effects = <<>>
    ELSE /\ rend = pre.rend
         /\ w = pre.w \o tail
         /\ effects = pre.effects

\* C4: on Feed(JumpEvent a) the previously pending instruction, if any, is
\* rendered and applied, then the block header for a is written (after the
\* instruction's lines), then PC is set to a; no instruction is pending after.
\* Every JumpEvent handled by Feed (alone or in a frame) writes one header.
C4_Jump ==
    /\ LastIsFeed("OpJmp") =>
          /\ FlushedFirst(<<[kind |-> "blank"],
                            [kind |-> "block", addr |-> LastCall.op.Addr]>>)
          /\ Shadow(St) = [AfterFlush(pre) EXCEPT !.PC = LastCall.op.Addr]
          /\ pending = Nil
    /\ Cardinality({i \in 1 .. Len(w) : w[i].kind = "block"})
          = Cardinality({i \in 1 .. Len(Units(hist)) :
                            Units(hist)[i].k = "op" /\ Units(hist)[i].op.type = "OpJmp"})

C4_Witness ==
    /\ LastIsFeed("OpJmp") /\ pre.pending # Nil /\ pre.effects # <<>>
    /\ Mem # pre.Mem
    /\ (pre.PC + pre.pending.Size) % AddrMod # PC

\* ---------------------------------------------------------------------
\* C5: after Feed(SyscallEvent) every event nested in the syscall has been
\* applied to the shadow state, in order.
C5_SyscallApplied ==
    LastIsFeed("OpSyscall") =>
        Shadow(St) = RefShadow(AfterFlush(pre), LastCall.op.Ops)

\* ---------------------------------------------------------------------
SysLine(op) == [kind |-> "sys", num |-> op.Num, args |-> op.Args, ret |-> op.Ret]

\* the events nested in the syscalls fed
SysNested == {SysA.Ops[i] : i \in 1 .. Len(SysA.Ops)}

\* C6: each SyscallEvent handled by Feed (alone or in a frame) produces
\* exactly one syscall line, written after the lines of the previously
\* pending instruction, which is flushed first; the events nested in a
\* syscall are never queued as side effects and never shown in the register
\* column of an instruction.
C6_Syscall ==
    /\ LastIsFeed("OpSyscall") =>
          /\ FlushedFirst(<<SysLine(LastCall.op)>>)
          /\ pending = Nil
    /\ Cardinality({i \in 1 .. Len(w) : w[i].kind = "sys"})
          = Cardinality({i \in 1 .. Len(Units(hist)) :
                            Units(hist)[i].k = "op" /\ Units(hist)[i].op.type = "OpSyscall"})
    /\ \A i \in 1 .. Len(effects) : effects[i] \notin SysNested
    /\ \A i \in 1 .. Len(rend) :
          /\ \A j \in 1 .. Len(rend[i].effects) : rend[i].effects[j] \notin SysNested
          /\ \A j \in 1 .. Len(ShownRegs(rend[i].lines)) :
                \A o \in SysNested :
                    o.type = "OpReg" => ShownRegs(rend[i].lines)[j] # RegStr(o)

C6_Witness ==
    /\ LastIsFeed("OpSyscall") /\ pre.pending # Nil /\ pre.effects # <<>>
    /\ Len(w) >= Len(pre.w) + 2

\* ---------------------------------------------------------------------
\* C7: feeding a KeyframeEvent applies every contained event to the shadow
\* state at once and writes no line for any of them (only the lines of a
\* previously pending instruction), and queues none of them; the memory it
\* applied is what an instruction rendered next reads: after a keyframe
\* MemoryWrite of [0xAA] at the PC, Step(size=1) and Flush render byte 0xAA.
C7_Keyframe ==
    /\ LastIsFeed("OpKeyframe") =>
          /\ Shadow(St) = RefShadow(AfterFlush(pre), LastCall.op.Ops)
          /\ FlushedFirst(<<>>)
          /\ pending = Nil
    /\ (hist = <<CallFeed(KeyA), CallFeed(OpStep(1)), CallFlush>>) =>
          /\ Len(w) = 1
          /\ w[1].kind = "ins"
          /\ w[1].cols[1] = [pc |-> 0, bytes |-> <<170>>]

C7_Witness ==
    /\ hist = <<CallFeed(KeyA), CallFeed(OpStep(1)), CallFlush>>
    /\ pre.Mem[0] = 170 /\ pre.pending = OpStep(1) /\ pre.effects = <<>>
    /\ pre.w = <<>> /\ Regs = (0 :> 2)

\* ---------------------------------------------------------------------
\* the indices of L that touch address a
MemTouches(L, a) == {i \in 1 .. Len(L) : Touches(L[i], a)}

\* C8: when a KeyframeEvent is fed while an instruction is pending, the
\* instruction is rendered from the state before the snapshot, and the
\* keyframe is applied after the queued side effects: a register or an
\* address written both by a queued side effect and by the keyframe keeps
\* the keyframe's value.
C8_KeyframePending ==
    (LastIsFeed("OpKeyframe") /\ pre.pending # Nil) =>
        LET K == Leaves(LastCall.op.Ops)
            Q == pre.effects
        IN  /\ Len(rend) = Len(pre.rend) + 1
            /\ RenderedFrom(Last(rend), pre)
            /\ \A a \in Addr :
                  (MemTouches(K, a) # {} /\ MemTouches(Q, a) # {}
                       /\ K[Max(MemTouches(K, a))].type = "OpMemWrite") =>
                     Mem[a] = K[Max(MemTouches(K, a))].Data[a - K[Max(MemTouches(K, a))].Addr + 1]
            /\ \A num \in DOMAIN Regs :
                  (RegWrites(K, num) # {} /\ RegWrites(Q, num) # {}) =>
                     Regs[num] = K[Max(RegWrites(K, num))].Val

C8_Witness ==
    /\ LastIsFeed("OpKeyframe") /\ pre.pending # Nil
    /\ \E a \in Addr :
          /\ MemTouches(Leaves(LastCall.op.Ops), a) # {}
          /\ \E i \in MemTouches(pre.effects, a) :
                /\ pre.effects[i].type = "OpMemWrite"
                /\ pre.effects[i].Data[a - pre.effects[i].Addr + 1] # Mem[a]
    /\ \E num \in DOMAIN Regs :
          /\ RegWrites(Leaves(LastCall.op.Ops), num) # {}
          /\ \E i \in RegWrites(pre.effects, num) : pre.effects[i].Val # Regs[num]

\* ---------------------------------------------------------------------
RECURSIVE FeedEach(_, _)
\* Feed called on each event of ops in order
FeedEach(s, ops) ==
    IF ops = <<>> THEN s ELSE FeedEach(Feed(s, Head(ops)), Tail(ops))

\* C9: feeding a FrameEvent is equivalent (same output, shadow state, pending
\* instruction and queue) to calling Feed on each contained event in order,
\* contained frames and keyframes included.
C9_FrameFlatten ==
    LastIsFeed("OpFrame") => St = FeedEach(pre, LastCall.op.Ops)

\* ---------------------------------------------------------------------
\* C10: Flush() with no pending instruction writes nothing and leaves PC, SP,
\* Regs, SpRegs, the memory, the pending instruction and the queue unchanged;
\* after any Flush() no instruction is pending, so the second of two
\* successive calls of Flush() writes nothing.
C10_FlushIdempotent ==
    /\ (LastIsFlush /\ pre.pending = Nil) => St = pre
    /\ LastIsFlush => pending = Nil
    /\ (Len(hist) >= 2 /\ LastIsFlush /\ hist[Len(hist) - 1].call = "Flush") =>
          /\ w = pre.w
          /\ St = pre

C10_Witness ==
    /\ Len(hist) >= 3 /\ LastIsFlush /\ hist[Len(hist) - 1].call = "Flush"
    /\ hist[Len(hist) - 2] = CallFeed(OpStep(1))
    /\ w # <<>>

\* =====================================================================
\* The State Updater alone: update() applied to a sequence of events, one
\* event per step, from an initial PC drawn from the address space.
\* =====================================================================
SysB == OpSyscall(1, <<>>, 0, <<OpStep(2), OpReg(0, 1)>>)
SysC == OpSyscall(2, <<3>>, 1, <<OpJmp(3), SysB, OpStep(1)>>)

\* the events handed to update()
UpdateOps ==
    {OpJmp(0), OpJmp(2), OpStep(1), OpStep(3), OpReg(ArchSP, 2), OpMemWrite(0, <<1>>),
     OpMemRead(0, <<0>>), OpExit, SysB, SysC}

CallNew(pc) == [call |-> "New", pc |-> pc]
CallUpdate(op) == [call |-> "update", op |-> op]

InitU ==
    /\ PC \in Addr
    /\ SP = NewStreamUI.SP
    /\ Regs = NewStreamUI.Regs
    /\ SpRegs = NewStreamUI.SpRegs
    /\ Mem = NewStreamUI.Mem
    /\ pending = NewStreamUI.pending
    /\ effects = NewStreamUI.effects
    /\ w = NewStreamUI.w
    /\ rend = NewStreamUI.rend
    /\ hist = <<CallNew(PC)>>
    /\ pre = [NewStreamUI EXCEPT !.PC = PC]

\* a call of s.update(op)
DoUpdate ==
    \E op \in UpdateOps :
        /\ Len(hist) <= MaxUpdates
        /\ Becomes(update(St, op))
        /\ hist' = Append(hist, CallUpdate(op))
        /\ pre' = St

NextU == DoUpdate

SpecU == InitU /\ [][NextU]_vars

RECURSIVE FoldPC(_, _)
\* the left fold of the PC over the events ops: a jump sets it, a step adds
\* its size, a syscall folds its nested events, anything else leaves it
FoldPC(pc, ops) ==
    IF ops = <<>> THEN pc
    ELSE FoldPC(CASE Head(ops).type = "OpJmp" -> Head(ops).Addr
                  [] Head(ops).type = "OpStep" -> (pc + Head(ops).Size) % AddrMod
                  [] Head(ops).type = "OpSyscall" -> FoldPC(pc, Head(ops).Ops)
                  [] OTHER -> pc,
                Tail(ops))

\* the events applied so far by update()
Updated == [i \in 1 .. (Len(hist) - 1) |-> hist[i + 1].op]

\* ---------------------------------------------------------------------
\* C11: after update() is applied to a finite sequence of events in order
\* from an initial PC0, PC is the left fold of the sequence from PC0 (jump
\* sets, step adds its size modulo the word, syscall folds its nested
\* events, other events leave PC unchanged).
C11_PCFold ==
    PC = FoldPC(hist[1].pc, Updated)

\* a jump, then steps that wrap around, one of them nested two syscalls deep
C11_Witness ==
    /\ Len(hist) = 4
    /\ hist[1].pc # 0
    /\ hist[2] = CallUpdate(OpStep(3))
    /\ hist[3] = CallUpdate(SysC)
    /\ hist[4] = CallUpdate(OpStep(3))
    /\ PC = 1

\* =====================================================================
\* The queue as the stream determines it
\* =====================================================================
\* a unit that makes Feed or the caller flush
IsBoundaryUnit(u) ==
    \/ u.k \in {"flush", "key"}
    \/ u.k = "op" /\ u.op.type \in {"OpJmp", "OpStep", "OpSyscall"}

RECURSIVE RefQueue(_)
\* after the units U: q, the side effects fed since the last flush that found
\* an instruction pending, and pend, whether an instruction is pending
RefQueue(U) ==
    IF U = <<>> THEN [q |-> <<>>, pend |-> FALSE]
    ELSE LET r == RefQueue(Front(U))
         IN  IF IsBoundaryUnit(Last(U))
             THEN [q |-> IF r.pend THEN <<>> ELSE r.q,
                   pend |-> IsStepUnit(Last(U))]
             ELSE [q |-> Append(r.q, Last(U).op), pend |-> r.pend]

\* the last call was Flush(), or a Feed that starts with Flush()
LastFlushes ==
    \/ LastIsFlush
    \/ LastIsFeed("OpJmp") \/ LastIsFeed("OpStep")
    \/ LastIsFeed("OpSyscall") \/ LastIsFeed("OpKeyframe")

\* ---------------------------------------------------------------------
\* C12 as stated: after any call of Flush() - explicit, or the one made by
\* Feed for a Jump, Step, Syscall or Keyframe event - the queue is empty.
C12_QueueEmptyAfterFlush ==
    LastFlushes => effects = <<>>

\* C12 as amended: a Flush() that finds an instruction pending empties the
\* queue, one that finds nothing pending leaves it as it is; the queue holds
\* exactly the side effects fed since the last flush that found an
\* instruction pending.
C12_QueueClearedIfPending ==
    /\ LastFlushes =>
          effects = (IF pre.pending # Nil THEN <<>> ELSE pre.effects)
    /\ effects = RefQueue(Units(hist)).q

C12_Witness ==
    /\ LastIsFeed("OpStep") /\ pre.pending # Nil /\ Len(pre.effects) >= 1
    /\ effects = <<>> /\ pending = LastCall.op

\* the last call fed one side-effect (non-boundary) event
LastIsEffect == Called /\ LastCall.call = "Feed" /\ LastCall.op \in EffectOps

\* ---------------------------------------------------------------------
\* C13 as stated: a non-boundary event fed while no instruction is pending
\* leaves the side-effect queue unchanged.
C13_QueueOnlyWhenPending ==
    (LastIsEffect /\ pre.pending = Nil) => effects = pre.effects

\* C13 as amended: the consumer is a two-state machine {no-pending, pending}:
\* an instruction is pending exactly when the last boundary fed is a
\* StepEvent, and a non-boundary event is a self-loop that is appended to
\* the side-effect queue in either state, the no-pending state included.
C13_TwoStates ==
    /\ (pending # Nil) = RefQueue(Units(hist)).pend
    /\ pending # Nil => pending.type = "OpStep"
    /\ LastIsEffect =>
          /\ (pending # Nil) = (pre.pending # Nil)
          /\ Len(effects) = Len(pre.effects) + 1
          /\ Last(effects) = LastCall.op
          /\ Front(effects) = pre.effects

C13_Witness ==
    /\ LastIsEffect /\ pre.pending = Nil /\ pre.effects # <<>>
    /\ hist[1] = CallFeed(OpJmp(2))
    /\ Len(effects) = 2

\* ---------------------------------------------------------------------
\* C14: for a stream fed through Feed and ended by Flush(), the shadow state
\* (PC, SP, Regs, SpRegs, memory) is the one obtained by applying every
\* event of the flattened stream, in stream order, by the State Updater
\* rules to the initial state.
C14_StreamOrder ==
    LastIsFlush =>
        Shadow(St) = RefShadow(Shadow(NewStreamUI), DeepLeaves(UnitOps(Units(hist))))

\* the decimal numerals of the register ids fed that the name table lacks
Numeral == (7 :> "7") @@ (12 :> "12")

\* the indices of q holding a write of a register without a name
Unnamed(q) == {i \in 1 .. Len(q) : IsRegOp(q[i]) /\ q[i].Num \notin DOMAIN RegNames}

\* ---------------------------------------------------------------------
\* C15: a queued RegisterWriteEvent whose register id is not in the name
\* table is rendered with its decimal numeral as the name: it is one entry
\* of the instruction's register-change list, at its place among the
\* register writes (none is omitted), and it is applied to Regs at the flush.
C15_UnknownRegister ==
    (LastIsFlush /\ pre.pending # Nil) =>
        LET q == pre.effects
            shown == ShownRegs(Last(rend).lines)
        IN  /\ Len(shown) = RegRank(q, Len(q))
            /\ \A i \in Unnamed(q) :
                  /\ shown[RegRank(q, i)] = <<Numeral[q[i].Num], "=", q[i].Val>>
                  /\ q[i].Num \in DOMAIN Regs
                  /\ (\A j \in (i + 1) .. Len(q) : ~(IsRegOp(q[j]) /\ q[j].Num = q[i].Num))
                        => Regs[q[i].Num] = q[i].Val

C15_Witness ==
    /\ LastIsFlush /\ pre.pending # Nil
    /\ \E i \in Unnamed(pre.effects) : pre.effects[i].Num = 12
    /\ 12 \in DOMAIN Regs /\ 12 \notin DOMAIN pre.Regs

RECURSIVE AppliedAtOnce(_)
\* the events of the units U that Feed applies when it handles them: a jump,
\* and the events of a keyframe
AppliedAtOnce(U) ==
    IF U = <<>> THEN <<>>
    ELSE (IF Head(U).k = "key" THEN Head(U).op.Ops
          ELSE IF Head(U).k = "op" /\ Head(U).op.type = "OpJmp" THEN <<Head(U).op>>
          ELSE <<>>)
         \o AppliedAtOnce(Tail(U))

C17_QueueOnly ==
    LastIsEffect => St = [pre EXCEPT !.effects = Append(pre.effects, LastCall.op)]

\* a memory write queued behind another effect of a pending instruction,
\* the memory still holding the old content
C17_Witness ==
    /\ LastIsEffect /\ LastCall.op.type = "OpMemWrite"
    /\ pre.pending # Nil /\ pre.effects # <<>>
    /\ Mem[LastCall.op.Addr] # LastCall.op.Data[1]
    /\ Len(effects) = 2

\* the k-th register write and the k-th memory access of q, counted from 1
NthReg(q, k) == q[CHOOSE i \in 1 .. Len(q) : IsRegOp(q[i]) /\ RegRank(q, i) = k]
NthMem(q, k) == q[CHOOSE i \in 1 .. Len(q) : IsMemAccess(q[i]) /\ MemRank(q, i) = k]

NotSpRegLine(l) == l.kind # "spreg"

\* the lines of rendering r are those the claim describes, R register writes
\* and M memory accesses being queued
RenderShape(r) ==
    LET q == r.effects
        R == RegRank(q, Len(q))
        M == MemRank(q, Len(q))
        L == SelectSeq(r.lines, NotSpRegLine)
    IN  /\ Len(L) = 1 + (IF R > 1 THEN R - 1 ELSE 0)
        /\ L[1].kind = "ins"
        /\ L[1].cols[2] = (IF R > 0 THEN RegStr(NthReg(q, 1)) ELSE Blank)
        /\ Len(L[1].cols) = (IF M > 0 THEN 3 ELSE 2)
        /\ M > 0 => L[1].cols[3] = MemStr(NthMem(q, 1))
        /\ \A i \in 1 .. (R - 1) :
              /\ L[i + 1].kind = "cont"
              /\ L[i + 1].cols[1] = RegStr(NthReg(q, i + 1))
              /\ Len(L[i + 1].cols) = (IF i < M THEN 2 ELSE 1)
              /\ i < M => L[i + 1].cols[2] = MemStr(NthMem(q, i + 1))
        /\ Len(ShownMem(r.lines)) =
              (IF M < (IF R > 1 THEN R ELSE 1) THEN M ELSE (IF R > 1 THEN R ELSE 1))

\* ---------------------------------------------------------------------
\* C18: rendering an instruction with R queued register writes and M queued
\* memory reads/writes writes one primary line (register change 0 if R > 0,
\* memory access 0 if M > 0) followed by max(0, R-1) continuation lines;
\* continuation line i carries register change i and, when i < M, memory
\* access i; the memory accesses from index max(1, R) on are on no line.
C18_RenderLines ==
    \A k \in 1 .. Len(rend) : RenderShape(rend[k])

\* a rendering with two register writes and three memory accesses
C18_Witness ==
    \E k \in 1 .. Len(rend) :
        /\ RegRank(rend[k].effects, Len(rend[k].effects)) = 2
        /\ MemRank(rend[k].effects, Len(rend[k].effects)) = 3
        /\ Len(ShownMem(rend[k].lines)) = 2

\* the number of StepEvents among U[1..i]
StepRank(U, i) == Cardinality({j \in 1 .. i : IsStepUnit(U[j])})

\* the index in U of the k-th StepEvent
NthStep(U, k) == CHOOSE i \in 1 .. Len(U) : IsStepUnit(U[i]) /\ StepRank(U, i) = k

RECURSIVE PCEvents(_)
\* the events of the units U that move the PC: the jumps and steps Feed
\* handles, and the events of the keyframes
PCEvents(U) ==
    IF U = <<>> THEN <<>>
    ELSE (IF Head(U).k = "key" THEN Leaves(Head(U).op.Ops)
          ELSE IF Head(U).k = "op" /\ Head(U).op.type \in {"OpJmp", "OpStep"}
               THEN <<Head(U).op>>
          ELSE <<>>)
         \o PCEvents(Tail(U))

IsInsLine(l) == l.kind = "ins"

LastRegWrite(q, num) ==
    CHOOSE i \in RegWrites(q, num) : \A j \in RegWrites(q, num) : j <= i

\* ---------------------------------------------------------------------
\* C20: a register write sets Regs[id] to its value, and SP too exactly when
\* id is the stack-pointer id: when Regs has an entry for the stack-pointer
\* id, SP equals it, otherwise SP is still its initial value; and after a
\* flush that applied queued writes, each written register holds the value
\* last written to it, every other register is as before, and SP is
\* unchanged when no write was to the stack-pointer id.
C20_StackPointer ==
    /\ ArchSP \in DOMAIN Regs => SP = Regs[ArchSP]
    /\ ArchSP \notin DOMAIN Regs => SP = NewStreamUI.SP
    /\ LastIsFlush /\ pre.pending # Nil =>
          LET q == pre.effects
              written == {q[i].Num : i \in {j \in 1 .. Len(q) : q[j].type = "OpReg"}}
          IN  /\ DOMAIN Regs = DOMAIN pre.Regs \cup written
              /\ \A n \in written : Regs[n] = q[LastRegWrite(q, n)].Val
              /\ \A n \in DOMAIN pre.Regs \ written : Regs[n] = pre.Regs[n]
              /\ SP = IF ArchSP \in written
                      THEN q[LastRegWrite(q, ArchSP)].Val ELSE pre.SP

\* a flush applied a write to the stack pointer and then one to another register
C20_Witness ==
    /\ LastIsFlush /\ pre.pending # Nil
    /\ RegWrites(pre.effects, ArchSP) # {}
    /\ \E n \in DOMAIN Regs \ {ArchSP} :
          /\ RegWrites(pre.effects, n) # {}
          /\ LastRegWrite(pre.effects, n) > LastRegWrite(pre.effects, ArchSP)
          /\ Regs[n] # SP
    /\ SP # pre.SP

====
